---- MODULE Spec2Model ----
(***************************************************************************)
(* A model of the arithmetic-parser crate: Parser::parse, the recursive    *)
(* Parser::parse_internal with its shared forward-only cursor, the state   *)
(* machine Parser::compute_state and the checked arithmetic of Operation.  *)
(*                                                                         *)
(* One behaviour is one Parser: Init is the state after Parser::new, the   *)
(* actions are the steps of Parser::parse.  The call stack of              *)
(* parse_internal is the sequence `frames` (last element = active frame).  *)
(***************************************************************************)
EXTENDS Integers, Sequences, FiniteSets, TLC

(***************************************************************************)
(* Bounds of the model.                                                    *)
(***************************************************************************)
\* usize::MAX, scaled down from 2^64 - 1 so that overflow is reachable.
UsizeMax == 15
\* Longest input drawn from the full alphabet.
MaxLen == 4
\* Longest well-formed expression drawn from the expression alphabet.
MaxExprLen == 11
MaxAccLen == 2
MaxInsertLen == 8

(***************************************************************************)
(* The symbol alphabet (operation.rs, mod codes).                          *)
(***************************************************************************)
OPCODE_ADD == "a"
OPCODE_SUB == "b"
OPCODE_MUL == "c"
OPCODE_DIV == "d"
OPCODE_OPEN == "e"
OPCODE_CLOSE == "f"

OpCodes == {OPCODE_ADD, OPCODE_SUB, OPCODE_MUL, OPCODE_DIV}

\* char::is_ascii_digit
AsciiDigits == {"0", "1", "2", "3", "4", "5", "6", "7", "8", "9"}

IsDigit(ch) == ch \in AsciiDigits

DigitVal(ch) ==
    CASE ch = "0" -> 0 [] ch = "1" -> 1 [] ch = "2" -> 2 [] ch = "3" -> 3
      [] ch = "4" -> 4 [] ch = "5" -> 5 [] ch = "6" -> 6 [] ch = "7" -> 7
      [] ch = "8" -> 8 [] ch = "9" -> 9

\* The symbols inputs are drawn from: three digits, the six codes and one
\* character outside the alphabet.
InputDigits == {"0", "2", "7"}
OtherChar == "x"
Alphabet == InputDigits \cup OpCodes \cup {OPCODE_OPEN, OPCODE_CLOSE, OtherChar}

\* The symbols of the longer, well-formed expressions.
ExprDigits == {"2", "7"}
ExprOps == {OPCODE_ADD, OPCODE_MUL}

(***************************************************************************)
(* Values: Option<usize>, Option<Operation>, errors and Result.            *)
(***************************************************************************)
None == [some |-> FALSE, val |-> 0]
Some(v) == [some |-> TRUE, val |-> v]

NoOperation == [some |-> FALSE, kind |-> "", first |-> 0]
SomeOperation(kind, first) == [some |-> TRUE, kind |-> kind, first |-> first]

\* Every error value has the same shape: kind is the ParseError variant,
\* inner the OperationError variant it wraps, text and msg the String
\* payloads, state and op the payload of UnexpectedSymbol.
MkError(kind, inner, text, msg, state, op) ==
    [kind |-> kind, inner |-> inner, text |-> text, msg |-> msg,
     state |-> state, op |-> op]

NoError == MkError("", "", <<>>, "", "", NoOperation)

EmptyExpression == MkError("EmptyExpression", "", <<>>, "", "", NoOperation)
ParseDigitError(text, msg) ==
    MkError("ParseDigitError", "", text, msg, "", NoOperation)
MalformedExpression(ch) ==
    MkError("MalformedExpression", "", <<ch>>, "", "", NoOperation)
UnbalancedParenthesis(ch) ==
    MkError("UnbalancedParenthesis", "", <<ch>>, "", "", NoOperation)
UnexpectedSymbol(ch, state, op) ==
    MkError("UnexpectedSymbol", "", <<ch>>, "", state, op)
IllegalState(msg) == MkError("IllegalState", "", <<>>, msg, "", NoOperation)

\* ParseError::InvalidOperation(OperationError): operr is an OperationError.
OverflowError == [inner |-> "OverflowError", text |-> <<>>, msg |-> ""]
InvalidFirstOperand(text, msg) ==
    [inner |-> "InvalidFirstOperand", text |-> text, msg |-> msg]
InvalidSecondOperand(text, msg) ==
    [inner |-> "InvalidSecondOperand", text |-> text, msg |-> msg]
InvalidOperationCode(ch) ==
    [inner |-> "InvalidOperationCode", text |-> <<ch>>, msg |-> ""]
NoOperationError == [inner |-> "", text |-> <<>>, msg |-> ""]
InvalidOperation(operr) ==
    MkError("InvalidOperation", operr.inner, operr.text, operr.msg, "",
            NoOperation)

\* Result<usize, ParseError>
Ok(v) == [ok |-> TRUE, val |-> v, err |-> NoError]
Err(e) == [ok |-> FALSE, val |-> 0, err |-> e]

\* Result<usize, OperationError> and Result<Operation, OperationError>
OpOk(v) == [ok |-> TRUE, val |-> v, operr |-> NoOperationError]
OpErr(e) == [ok |-> FALSE, val |-> 0, operr |-> e]
OperationOk(op) == [ok |-> TRUE, op |-> op, operr |-> NoOperationError]
OperationErr(e) == [ok |-> FALSE, op |-> NoOperation, operr |-> e]

\* Option::ok_or and Result::ok
OkOr(opt, e) == IF opt.some THEN Ok(opt.val) ELSE Err(e)
ResultOk(res) == IF res.ok THEN Some(res.val) ELSE None

(***************************************************************************)
(* str::parse::<usize>: the decimal value of a digit string, computed      *)
(* digit by digit with a checked multiply and add.                         *)
(***************************************************************************)
PosOverflow == "number too large to fit in target type"
EmptyString == "cannot parse integer from empty string"

RECURSIVE ParseDigits(_)
ParseDigits(s) ==
    IF s = <<>> THEN [ok |-> TRUE, val |-> 0, msg |-> ""]
    ELSE LET p == ParseDigits(SubSeq(s, 1, Len(s) - 1))
             v == p.val * 10 + DigitVal(s[Len(s)])
         IN  IF ~p.ok THEN p
             ELSE IF v > UsizeMax
                  THEN [ok |-> FALSE, val |-> 0, msg |-> PosOverflow]
                  ELSE [ok |-> TRUE, val |-> v, msg |-> ""]

ParseUsize(s) ==
    IF s = <<>> THEN [ok |-> FALSE, val |-> 0, msg |-> EmptyString]
    ELSE ParseDigits(s)

(***************************************************************************)
(* Operation (operation.rs).                                               *)
(***************************************************************************)
\* usize::checked_add, checked_sub, checked_mul, checked_div
CheckedAdd(a, b) == IF a + b > UsizeMax THEN None ELSE Some(a + b)
CheckedSub(a, b) == IF a < b THEN None ELSE Some(a - b)
CheckedMul(a, b) == IF a * b > UsizeMax THEN None ELSE Some(a * b)
CheckedDiv(a, b) == IF b = 0 THEN None ELSE Some(a \div b)

\* Operation::from_result
FromResult(code, first_operand) ==
    CASE code = OPCODE_ADD -> OperationOk(SomeOperation("Add", first_operand))
      [] code = OPCODE_SUB -> OperationOk(SomeOperation("Sub", first_operand))
      [] code = OPCODE_MUL -> OperationOk(SomeOperation("Mul", first_operand))
      [] code = OPCODE_DIV -> OperationOk(SomeOperation("Div", first_operand))
      [] OTHER -> OperationErr(InvalidOperationCode(code))

\* Operation::from
From(code, first_operand) ==
    LET parsed == ParseUsize(first_operand)
    IN  IF ~parsed.ok
        THEN OperationErr(InvalidFirstOperand(first_operand, parsed.msg))
        ELSE FromResult(code, parsed.val)

\* Operation::apply_result
ApplyResult(op, second_operand) ==
    LET r == CASE op.kind = "Add" -> CheckedAdd(op.first, second_operand)
               [] op.kind = "Sub" -> CheckedSub(op.first, second_operand)
               [] op.kind = "Mul" -> CheckedMul(op.first, second_operand)
               [] op.kind = "Div" -> CheckedDiv(op.first, second_operand)
    IN  IF r.some THEN OpOk(r.val) ELSE OpErr(OverflowError)

\* Operation::apply
Apply(op, second_operand) ==
    LET parsed == ParseUsize(second_operand)
    IN  IF ~parsed.ok
        THEN OpErr(InvalidSecondOperand(second_operand, parsed.msg))
        ELSE ApplyResult(op, parsed.val)

\* Result::map_err(ParseError::InvalidOperation)
MapInvalidOperation(r) == IF r.ok THEN Ok(r.val) ELSE Err(InvalidOperation(r.operr))

(***************************************************************************)
(* Parser (parser.rs).                                                     *)
(***************************************************************************)
FirstOperand == "FirstOperand"
Operation == "Operation"
SecondOperand == "SecondOperand"
CloseParenthesis == "CloseParenthesis"

\* Parser::compute_state.  The result carries the accumulator, which the
\* code clears through its &mut String argument.
StateOk(state, acc) == [ok |-> TRUE, state |-> state, acc |-> acc, err |-> NoError]
StateErr(e, acc) == [ok |-> FALSE, state |-> "", acc |-> acc, err |-> e]

\* compute_state with the last arm of FirstOperand letting the symbol pass:
\* a symbol that is neither a digit, an operator code nor a group symbol is
\* accepted in FirstOperand.
ComputeStateLenient(state, ch, acc) ==
    LET is_digit == IsDigit(ch)
    IN  CASE state = FirstOperand /\ ~is_digit ->
               ( CASE ch \in OpCodes -> StateOk(Operation, <<>>)
                   [] ch = OPCODE_CLOSE -> StateOk(CloseParenthesis, <<>>)
                   [] OTHER -> StateOk(FirstOperand, acc) )
          [] state = Operation /\ is_digit -> StateOk(SecondOperand, acc)
          [] state = Operation /\ ~is_digit ->
               ( CASE ch \in OpCodes /\ acc # <<>> -> StateOk(state, <<>>)
                   [] ch = OPCODE_OPEN -> StateOk(state, <<>>)
                   [] OTHER -> StateErr(MalformedExpression(ch), acc) )
          [] state = SecondOperand /\ ~is_digit ->
               ( CASE ch \in OpCodes -> StateOk(Operation, <<>>)
                   [] ch = OPCODE_OPEN -> StateOk(SecondOperand, acc)
                   [] ch = OPCODE_CLOSE -> StateOk(CloseParenthesis, <<>>)
                   [] OTHER -> StateErr(MalformedExpression(ch), acc) )
          [] state = CloseParenthesis /\ ~is_digit ->
               ( CASE ch \in OpCodes -> StateOk(Operation, <<>>)
                   [] ch = OPCODE_CLOSE -> StateOk(CloseParenthesis, acc)
                   [] OTHER -> StateErr(UnbalancedParenthesis(ch), acc) )
          [] state \in {FirstOperand, SecondOperand} /\ is_digit -> StateOk(state, acc)
          [] OTHER -> StateErr(MalformedExpression(ch), acc)

\* compute_state without acc.clear() where SecondOperand meets an operator
\* code: the digits of the second operand stay in the accumulator.
ComputeStateKeepAcc(state, ch, acc) ==
    LET is_digit == IsDigit(ch)
    IN  CASE state = FirstOperand /\ ~is_digit ->
               ( CASE ch \in OpCodes -> StateOk(Operation, <<>>)
                   [] ch = OPCODE_OPEN -> StateOk(FirstOperand, acc)
                   [] ch = OPCODE_CLOSE -> StateOk(CloseParenthesis, <<>>)
                   [] OTHER -> StateErr(MalformedExpression(ch), acc) )
          [] state = Operation /\ is_digit -> StateOk(SecondOperand, acc)
          [] state = Operation /\ ~is_digit ->
               ( CASE ch \in OpCodes /\ acc # <<>> -> StateOk(state, <<>>)
                   [] ch = OPCODE_OPEN -> StateOk(state, <<>>)
                   [] OTHER -> StateErr(MalformedExpression(ch), acc) )
          [] state = SecondOperand /\ ~is_digit ->
               ( CASE ch \in OpCodes -> StateOk(Operation, acc)
                   [] ch = OPCODE_OPEN -> StateOk(SecondOperand, acc)
                   [] ch = OPCODE_CLOSE -> StateOk(CloseParenthesis, <<>>)
                   [] OTHER -> StateErr(MalformedExpression(ch), acc) )
          [] state = CloseParenthesis /\ ~is_digit ->
               ( CASE ch \in OpCodes -> StateOk(Operation, <<>>)
                   [] ch = OPCODE_CLOSE -> StateOk(CloseParenthesis, acc)
                   [] OTHER -> StateErr(UnbalancedParenthesis(ch), acc) )
          [] state \in {FirstOperand, SecondOperand} /\ is_digit -> StateOk(state, acc)
          [] OTHER -> StateErr(MalformedExpression(ch), acc)

ComputeState(state, ch, acc) ==
    LET is_digit == IsDigit(ch)
    IN  CASE state = FirstOperand /\ ~is_digit ->
               ( CASE ch \in OpCodes -> StateOk(Operation, <<>>)
                   [] ch = OPCODE_OPEN -> StateOk(FirstOperand, acc)
                   [] ch = OPCODE_CLOSE -> StateOk(CloseParenthesis, <<>>)
                   [] OTHER -> StateErr(MalformedExpression(ch), acc) )
          [] state = Operation /\ is_digit -> StateOk(SecondOperand, acc)
          [] state = Operation /\ ~is_digit ->
               ( CASE ch \in OpCodes /\ acc # <<>> -> StateOk(state, <<>>)
                   [] ch = OPCODE_OPEN -> StateOk(state, <<>>)
                   [] OTHER -> StateErr(MalformedExpression(ch), acc) )
          [] state = SecondOperand /\ ~is_digit ->
               ( CASE ch \in OpCodes -> StateOk(Operation, <<>>)
                   [] ch = OPCODE_OPEN -> StateOk(SecondOperand, acc)
                   [] ch = OPCODE_CLOSE -> StateOk(CloseParenthesis, <<>>)
                   [] OTHER -> StateErr(MalformedExpression(ch), acc) )
          [] state = CloseParenthesis /\ ~is_digit ->
               ( CASE ch \in OpCodes -> StateOk(Operation, <<>>)
                   [] ch = OPCODE_CLOSE -> StateOk(CloseParenthesis, acc)
                   [] OTHER -> StateErr(UnbalancedParenthesis(ch), acc) )
          [] state \in {FirstOperand, SecondOperand} /\ is_digit ->
               StateOk(state, acc)
          [] OTHER -> StateErr(MalformedExpression(ch), acc)

\* The locals of one activation of parse_internal.
NewFrame(result) ==
    [state |-> FirstOperand, operation |-> NoOperation, acc |-> <<>>,
     result |-> result]

\* No call of Operation::apply_result made yet / the last call made.
NoApply == [called |-> FALSE, op |-> NoOperation, second |-> 0, res |-> OpOk(0)]
ApplyCall(op, second) ==
    [called |-> TRUE, op |-> op, second |-> second, res |-> ApplyResult(op, second)]

\* What one iteration of the loop of parse_internal does to its frame:
\* "continue" with the frame updated, "call" parse_internal for a group, or
\* "return" res.  raised tells whether res is an error created here.
Continue(frame, applied) ==
    [tag |-> "continue", frame |-> frame, res |-> Ok(0), applied |-> applied]
Call(frame) ==
    [tag |-> "call", frame |-> frame, res |-> Ok(0), applied |-> NoApply]
Return(frame, res, applied) ==
    [tag |-> "return", frame |-> frame, res |-> res, applied |-> applied]

\* Arm 1: a digit of the first operand.
DigitFirstOperand(f, ch) ==
    LET acc == Append(f.acc, ch)
        parsed == ParseUsize(acc)
    IN  IF parsed.ok
        THEN Continue([f EXCEPT !.acc = acc, !.result = Some(parsed.val)], NoApply)
        ELSE Return(f, Err(ParseDigitError(acc, parsed.msg)), NoApply)

\* Arm 2: a digit of the second operand.
DigitSecondOperand(f, ch) ==
    LET acc == Append(f.acc, ch)
        applied == IF ParseUsize(acc).ok
                   THEN ApplyCall(f.operation, ParseUsize(acc).val)
                   ELSE NoApply
        res == MapInvalidOperation(Apply(f.operation, acc))
    IN  IF ~f.operation.some
        THEN Return(f, Err(IllegalState("No operation when evaluating SecondOperand")),
                    NoApply)
        ELSE IF res.ok
             THEN Continue([f EXCEPT !.acc = acc, !.result = Some(res.val)], applied)
             ELSE Return(f, res, applied)

\* OperatorCode without `operation = Some(..)`: the Operation built is not
\* kept as the pending one of the frame.
OperatorCodeNotKept(f, code) ==
    LET made == IF f.acc = <<>>
                THEN FromResult(code, f.result.val)
                ELSE From(code, f.acc)
    IN  IF f.acc = <<>> /\ ~f.result.some
        THEN Return(f, Err(IllegalState(
                 "No previous result and accumulator empty instantiating operation")),
                 NoApply)
        ELSE IF made.ok
             THEN Continue([f EXCEPT !.acc = <<>>], NoApply)
             ELSE Return(f, Err(InvalidOperation(made.operr)), NoApply)

\* Arm 3: an operator code in state Operation.
OperatorCode(f, code) ==
    LET made == IF f.acc = <<>>
                THEN FromResult(code, f.result.val)
                ELSE From(code, f.acc)
    IN  IF f.acc = <<>> /\ ~f.result.some
        THEN Return(f, Err(IllegalState(
                 "No previous result and accumulator empty instantiating operation")),
                 NoApply)
        ELSE IF made.ok
             THEN Continue([f EXCEPT !.operation = made.op, !.acc = <<>>], NoApply)
             ELSE Return(f, Err(InvalidOperation(made.operr)), NoApply)

\* CloseGroup without its return: the frame goes on scanning in state
\* CloseParenthesis.
CloseGroupGoesOn(f) == Continue(f, NoApply)

\* CloseGroup reporting a missing result as the end of the loop does.
CloseGroupEmpty(f) ==
    Return(f, OkOr(f.result, EmptyExpression), NoApply)

\* Arm 5: a group-close in state CloseParenthesis.
CloseGroup(f) ==
    Return(f, OkOr(f.result,
                   IllegalState("Result not available when closing parenthesis")),
           NoApply)

\* The match of parse_internal, arms in the order of the code; f already
\* holds the state and the accumulator compute_state left.
Dispatch(f, ch) ==
    CASE f.state = FirstOperand /\ IsDigit(ch) -> DigitFirstOperand(f, ch)
      [] f.state = SecondOperand /\ IsDigit(ch) -> DigitSecondOperand(f, ch)
      [] ~IsDigit(ch) /\ ch \in OpCodes /\ f.state = Operation -> OperatorCode(f, ch)
      [] ~IsDigit(ch) /\ ~(ch \in OpCodes /\ f.state = Operation)
           /\ ch = OPCODE_OPEN -> Call(f)
      [] ~IsDigit(ch) /\ ~(ch \in OpCodes /\ f.state = Operation)
           /\ ch = OPCODE_CLOSE /\ f.state = CloseParenthesis -> CloseGroup(f)
      [] OTHER -> Return(f, Err(UnexpectedSymbol(ch, f.state, f.operation)), NoApply)

\* One iteration of `while let Some(char) = data.next()`.
Iteration(f, ch) ==
    LET cs == ComputeState(f.state, ch, f.acc)
    IN  IF ~cs.ok
        THEN Return([f EXCEPT !.acc = cs.acc], Err(cs.err), NoApply)
        ELSE Dispatch([f EXCEPT !.state = cs.state, !.acc = cs.acc], ch)

(***************************************************************************)
(* Reference semantics of the expression grammar                           *)
(*     E ::= T (op T)*      T ::= digits | e E f                           *)
(* evaluated over the mathematical integers: every group to one value      *)
(* first, the operands of one level strictly left to right.                *)
(***************************************************************************)
RefBad == [wf |-> FALSE, rep |-> FALSE, val |-> 0, next |-> 0]

RECURSIVE DigitRunEnd(_, _)
DigitRunEnd(s, i) ==
    IF i < Len(s) /\ IsDigit(s[i + 1]) THEN DigitRunEnd(s, i + 1) ELSE i

RECURSIVE RunValue(_)
RunValue(s) ==
    IF s = <<>> THEN 0
    ELSE RunValue(SubSeq(s, 1, Len(s) - 1)) * 10 + DigitVal(s[Len(s)])

RefCombine(l, code, r) ==
    LET v == CASE code = OPCODE_ADD -> l.val + r.val
               [] code = OPCODE_SUB -> l.val - r.val
               [] code = OPCODE_MUL -> l.val * r.val
               [] code = OPCODE_DIV -> IF r.val = 0 THEN -1 ELSE l.val \div r.val
        rep == l.rep /\ r.rep /\ v >= 0 /\ v <= UsizeMax
    IN  [wf |-> TRUE, rep |-> rep, val |-> IF rep THEN v ELSE 0, next |-> r.next]

RECURSIVE RefTerm(_, _), RefExpr(_, _), RefTail(_, _)
RefTerm(s, i) ==
    IF i > Len(s) THEN RefBad
    ELSE IF IsDigit(s[i])
    THEN LET j == DigitRunEnd(s, i)
             v == RunValue(SubSeq(s, i, j))
         IN  [wf |-> TRUE, rep |-> v <= UsizeMax,
              val |-> IF v <= UsizeMax THEN v ELSE 0, next |-> j + 1]
    ELSE IF s[i] = OPCODE_OPEN
    THEN LET g == RefExpr(s, i + 1)
         IN  IF g.wf /\ g.next <= Len(s) /\ s[g.next] = OPCODE_CLOSE
             THEN [g EXCEPT !.next = g.next + 1]
             ELSE RefBad
    ELSE RefBad

RefTail(s, l) ==
    IF l.next <= Len(s) /\ s[l.next] \in OpCodes
    THEN LET r == RefTerm(s, l.next + 1)
         IN  IF r.wf THEN RefTail(s, RefCombine(l, s[l.next], r)) ELSE RefBad
    ELSE l

RefExpr(s, i) ==
    LET t == RefTerm(s, i)
    IN  IF t.wf THEN RefTail(s, t) ELSE RefBad

RefEval(s) ==
    LET v == RefExpr(s, 1)
    IN  IF v.wf /\ v.next = Len(s) + 1 THEN v ELSE RefBad

WellFormed(s) == RefEval(s).wf

\* The operands of a well-formed expression: a maximal digit run or a whole
\* group, as the pair of its first and last position.
OperandSpans(s) ==
    { span \in (1..Len(s)) \X (1..Len(s)) :
        /\ span[1] <= span[2]
        /\ \/ /\ \A k \in span[1]..span[2] : IsDigit(s[k])
              /\ span[1] = 1 \/ ~IsDigit(s[span[1] - 1])
              /\ span[2] = Len(s) \/ ~IsDigit(s[span[2] + 1])
           \/ /\ s[span[1]] = OPCODE_OPEN
              /\ s[span[2]] = OPCODE_CLOSE
              /\ WellFormed(SubSeq(s, span[1] + 1, span[2] - 1)) }

\* The operand at span wrapped in one more group-open / group-close pair.
Wrapped(s, span) ==
    SubSeq(s, 1, span[1] - 1) \o <<OPCODE_OPEN>> \o SubSeq(s, span[1], span[2])
      \o <<OPCODE_CLOSE>> \o SubSeq(s, span[2] + 1, Len(s))

(***************************************************************************)
(* The inputs: every string over Alphabet up to MaxLen, and every          *)
(* well-formed expression over ExprDigits and ExprOps up to MaxExprLen.    *)
(***************************************************************************)
RECURSIVE Strings(_, _)
Strings(alphabet, n) ==
    IF n = 0 THEN {<<>>}
    ELSE LET shorter == Strings(alphabet, n - 1)
         IN  shorter \cup { Append(s, ch) : s \in shorter, ch \in alphabet }

RECURSIVE Terms(_), Exprs(_)
Terms(n) ==
    (IF n = 1 THEN { <<d>> : d \in ExprDigits } ELSE {})
      \cup (IF n >= 3
            THEN { <<OPCODE_OPEN>> \o x \o <<OPCODE_CLOSE>> : x \in Exprs(n - 2) }
            ELSE {})
Exprs(n) ==
    Terms(n) \cup
      UNION { { l \o <<code>> \o t : l \in Exprs(k), code \in ExprOps,
                                      t \in Terms(n - k - 1) } : k \in 1..(n - 2) }

Inputs == Strings(Alphabet, MaxLen) \cup UNION { Exprs(n) : n \in 1..MaxExprLen }

(***************************************************************************)
(* The state.                                                              *)
(***************************************************************************)
VARIABLES
    input,      \* Parser.expression, a sequence of one-character strings
    pc,         \* where Parser::parse stands: "parse", "loop", "scan",
                \* "return" or "done"; "compute_state" and "computed"
                \* around a call of compute_state on its own
    pos,        \* the cursor `data`: the number of symbols consumed
    frames,     \* the activations of parse_internal, innermost last
    topResult,  \* `result` of Parser::parse
    ret,        \* the value a parse_internal activation has just returned
    outcome,    \* what Parser::parse returned
    firstErr,   \* history: the first error value created, NoError if none
    lastApply,  \* history: the last call of Operation::apply_result
    applyFailed,\* history: some call of Operation::apply_result failed
    prev,       \* the outcome of parsing the expression this one was
                \* derived from (an operand wrapped, an operator
                \* appended), Ok/Err; NoPrev for a first parse
    callPos     \* history: the cursor when Parser::parse last called
                \* parse_internal

vars == <<input, pc, pos, frames, topResult, ret, outcome, firstErr,
          lastApply, applyFailed, prev, callPos>>

NoPrev == [ok |-> FALSE, val |-> 0, err |-> NoError]

Count(s, ch) == Cardinality({ i \in 1..Len(s) : s[i] = ch })

\* Parser::new
NewParser(expression, before) ==
    /\ input = expression
    /\ pc = "parse"
    /\ pos = 0
    /\ frames = <<>>
    /\ topResult = None
    /\ ret = Ok(0)
    /\ outcome = Ok(0)
    /\ firstErr = NoError
    /\ lastApply = NoApply
    /\ applyFailed = FALSE
    /\ prev = before
    /\ callPos = 0

Init == \E expression \in Inputs : NewParser(expression, NoPrev)

Raise(e) == IF firstErr = NoError THEN e ELSE firstErr

\* PreScanResult without its second comparison: a surplus of group-close
\* symbols goes undetected.
PreScanOpenOnly(expression) ==
    IF Count(expression, OPCODE_OPEN) > Count(expression, OPCODE_CLOSE)
    THEN Err(UnbalancedParenthesis(OPCODE_OPEN))
    ELSE Ok(0)

\* Parser::parse, up to the loop: the pre-scan of the group symbols.
PreScanResult(expression) ==
    LET open_brackets == Count(expression, OPCODE_OPEN)
        closed_brackets == Count(expression, OPCODE_CLOSE)
    IN  IF open_brackets > closed_brackets
        THEN Err(UnbalancedParenthesis(OPCODE_OPEN))
        ELSE IF closed_brackets > open_brackets
        THEN Err(UnbalancedParenthesis(OPCODE_CLOSE))
        ELSE Ok(0)

PreScan ==
    /\ pc = "parse"
    /\ LET r == PreScanResult(input)
       IN  IF r.ok
           THEN /\ pc' = "loop"
                /\ UNCHANGED <<outcome, firstErr>>
           ELSE /\ pc' = "done"
                /\ outcome' = r
                /\ firstErr' = Raise(r.err)
    /\ topResult' = None
    /\ UNCHANGED <<input, pos, frames, ret, lastApply, applyFailed, prev, callPos>>

\* What Parser::parse returns once the cursor is exhausted.
ParseEnd(result) == OkOr(result, EmptyExpression)

\* `while data.clone().count() > 0`: call parse_internal, or leave the loop.
TopLoop ==
    /\ pc = "loop"
    /\ IF pos < Len(input)
       THEN /\ frames' = <<NewFrame(topResult)>>
            /\ pc' = "scan"
            /\ UNCHANGED <<outcome, firstErr>>
       ELSE /\ outcome' = ParseEnd(topResult)
            /\ firstErr' = IF outcome'.ok THEN firstErr ELSE Raise(outcome'.err)
            /\ pc' = "done"
            /\ UNCHANGED frames
    /\ callPos' = pos
    /\ UNCHANGED <<input, pos, topResult, ret, lastApply, applyFailed, prev>>

\* data.next() on a cursor with a symbol left, and data.peek().
AfterNext(cursor) == cursor + 1

\* data.next() where parse_internal peeks: the symbol looked at is consumed.
AfterPeekConsuming(cursor) == IF cursor < Len(input) THEN cursor + 1 ELSE cursor

AfterPeek(cursor) == cursor

Top == frames[Len(frames)]
Pop == SubSeq(frames, 1, Len(frames) - 1)
SetTop(f) == [frames EXCEPT ![Len(frames)] = f]

\* One iteration of the loop of parse_internal in the innermost frame.
Scan ==
    /\ pc = "scan"
    /\ pos < Len(input)
    /\ pos' = AfterNext(pos)
    /\ LET step == Iteration(Top, input[pos + 1])
       IN  /\ CASE step.tag = "continue" ->
                     /\ frames' = SetTop(step.frame)
                     /\ pc' = "scan"
                     /\ UNCHANGED <<ret, firstErr>>
                [] step.tag = "call" ->
                     /\ frames' = Append(SetTop(step.frame),
                                         NewFrame(step.frame.result))
                     /\ pc' = "scan"
                     /\ UNCHANGED <<ret, firstErr>>
                [] step.tag = "return" ->
                     /\ frames' = Pop
                     /\ ret' = step.res
                     /\ pc' = "return"
                     /\ firstErr' = IF step.res.ok THEN firstErr
                                    ELSE Raise(step.res.err)
           /\ lastApply' = IF step.applied.called THEN step.applied ELSE lastApply
           /\ applyFailed' = (applyFailed \/
                               (step.applied.called /\ ~step.applied.res.ok))
    /\ UNCHANGED <<input, topResult, outcome, prev, callPos>>

\* FrameEnd refusing an Operation left without its second operand.
FrameEndNoPending(f) ==
    IF f.state = Operation
    THEN Err(EmptyExpression)
    ELSE OkOr(f.result, EmptyExpression)

\* What parse_internal returns once the cursor is exhausted.
FrameEnd(f) == OkOr(f.result, EmptyExpression)

\* data.next() is None: the loop of parse_internal ends.
EndOfData ==
    /\ pc = "scan"
    /\ pos = Len(input)
    /\ ret' = FrameEnd(Top)
    /\ firstErr' = IF ret'.ok THEN firstErr ELSE Raise(ret'.err)
    /\ frames' = Pop
    /\ pc' = "return"
    /\ UNCHANGED <<input, pos, topResult, outcome, lastApply, applyFailed, prev, callPos>>

\* data.peek() is an operator code.
PeekIsOperator == pos < Len(input) /\ input[pos + 1] \in OpCodes

\* GroupResult applying the pending Operation to the running result of the
\* frame, which holds the digits read since, instead of its first operand.
GroupResultOnResult(f, sub, peek_is_operator) ==
    IF f.operation.some /\ ~sub.ok
    THEN [tag |-> "propagate", res |-> sub, applied |-> NoApply]
    ELSE LET operation == SomeOperation(f.operation.kind, f.result.val)
             applied == IF f.operation.some
                        THEN ApplyCall(operation, sub.val)
                        ELSE NoApply
             res == IF f.operation.some
                    THEN MapInvalidOperation(applied.res)
                    ELSE sub
         IN  [tag |-> IF peek_is_operator THEN "continue" ELSE "return",
              res |-> res, applied |-> applied]

\* The group-open arm after the recursive call: res, and whether the
\* frame returns it ("return"), propagates the callee's error ("propagate")
\* or goes on with it as its running result ("continue").
GroupResult(f, sub, peek_is_operator) ==
    IF f.operation.some /\ ~sub.ok
    THEN [tag |-> "propagate", res |-> sub, applied |-> NoApply]
    ELSE LET applied == IF f.operation.some
                        THEN ApplyCall(f.operation, sub.val)
                        ELSE NoApply
             res == IF f.operation.some
                    THEN MapInvalidOperation(applied.res)
                    ELSE sub
         IN  [tag |-> IF peek_is_operator THEN "continue" ELSE "return",
              res |-> res, applied |-> applied]

\* A parse_internal called for a group has returned to the calling frame.
GroupResume ==
    /\ pc = "return"
    /\ frames # <<>>
    /\ LET g == GroupResult(Top, ret, PeekIsOperator)
       IN  /\ IF g.tag = "continue"
              THEN /\ frames' = SetTop([Top EXCEPT !.result = ResultOk(g.res),
                                                   !.state = FirstOperand])
                   /\ pc' = "scan"
                   /\ UNCHANGED ret
              ELSE /\ frames' = Pop
                   /\ ret' = g.res
                   /\ pc' = "return"
           /\ lastApply' = IF g.applied.called THEN g.applied ELSE lastApply
           /\ applyFailed' = (applyFailed \/ (g.applied.called /\ ~g.applied.res.ok))
           /\ firstErr' = IF g.applied.called /\ ~g.applied.res.ok
                          THEN Raise(g.res.err) ELSE firstErr
    /\ pos' = AfterPeek(pos)
    /\ UNCHANGED <<input, topResult, outcome, prev, callPos>>

\* parse_internal has returned to Parser::parse: `?`, then result = Some(res).
ParseResume ==
    /\ pc = "return"
    /\ frames = <<>>
    /\ IF ret.ok
       THEN /\ topResult' = Some(ret.val)
            /\ pc' = "loop"
            /\ UNCHANGED outcome
       ELSE /\ outcome' = ret
            /\ pc' = "done"
            /\ UNCHANGED topResult
    /\ UNCHANGED <<input, pos, frames, ret, firstErr, lastApply, applyFailed, prev, callPos>>

\* A second Parser, for the expression with one operand wrapped in one more
\* group, once a well-formed expression has parsed to a value.
WrapOperand ==
    /\ pc = "done"
    /\ outcome.ok
    /\ prev = NoPrev \/ prev.ok
    /\ Len(input) + 2 <= MaxExprLen
    /\ WellFormed(input)
    /\ \E span \in OperandSpans(input) :
         /\ input' = Wrapped(input, span)
         /\ prev' = outcome
    /\ pc' = "parse"
    /\ pos' = 0
    /\ frames' = <<>>
    /\ topResult' = None
    /\ ret' = Ok(0)
    /\ outcome' = Ok(0)
    /\ firstErr' = NoError
    /\ lastApply' = NoApply
    /\ applyFailed' = FALSE
    /\ callPos' = 0

\* A second Parser, for the expression followed by one more operator code,
\* once an expression without groups has parsed to a value.
AppendOperator ==
    /\ pc = "done"
    /\ outcome.ok
    /\ prev = NoPrev
    /\ Len(input) < MaxExprLen
    /\ \A i \in 1..Len(input) : input[i] \notin {OPCODE_OPEN, OPCODE_CLOSE}
    /\ \E code \in OpCodes :
         /\ input' = Append(input, code)
         /\ prev' = outcome
    /\ pc' = "parse"
    /\ pos' = 0
    /\ frames' = <<>>
    /\ topResult' = None
    /\ ret' = Ok(0)
    /\ outcome' = Ok(0)
    /\ firstErr' = NoError
    /\ lastApply' = NoApply
    /\ applyFailed' = FALSE
    /\ callPos' = 0

\* A second Parser, for the expression with one digit written right before
\* one of its group-open symbols, once a well-formed expression has parsed
\* to a value.
InsertDigit ==
    /\ pc = "done"
    /\ outcome.ok
    /\ prev = NoPrev
    /\ Len(input) < MaxInsertLen
    /\ WellFormed(input)
    /\ \E i \in 1..Len(input), d \in InputDigits :
         /\ input[i] = OPCODE_OPEN
         /\ input' = SubSeq(input, 1, i - 1) \o <<d>> \o SubSeq(input, i, Len(input))
         /\ prev' = outcome
    /\ pc' = "parse"
    /\ pos' = 0
    /\ frames' = <<>>
    /\ topResult' = None
    /\ ret' = Ok(0)
    /\ outcome' = Ok(0)
    /\ firstErr' = NoError
    /\ lastApply' = NoApply
    /\ applyFailed' = FALSE
    /\ callPos' = 0

Next ==
    \/ PreScan
    \/ TopLoop
    \/ Scan
    \/ EndOfData
    \/ GroupResume
    \/ ParseResume
    \/ WrapOperand
    \/ AppendOperator
    \/ InsertDigit

Spec == Init /\ [][Next]_vars

(***************************************************************************)
(* compute_state on its own: one call on every state, symbol and           *)
(* accumulator, those of CloseParenthesis included.                        *)
(***************************************************************************)
ParserStates == {FirstOperand, Operation, SecondOperand, CloseParenthesis}
Accumulators == Strings(InputDigits, MaxAccLen)

\* A frame in any state with any accumulator, and one symbol to read.
TableInit ==
    \E state \in ParserStates, ch \in Alphabet, acc \in Accumulators :
        /\ input = <<ch>>
        /\ pc = "compute_state"
        /\ pos = 0
        /\ frames = <<[NewFrame(None) EXCEPT !.state = state, !.acc = acc]>>
        /\ topResult = None
        /\ ret = Ok(0)
        /\ outcome = Ok(0)
        /\ firstErr = NoError
        /\ lastApply = NoApply
        /\ applyFailed = FALSE
        /\ prev = NoPrev
        /\ callPos = 0

\* `state = self.compute_state(state, char, &mut acc)?`: the frame after the
\* call is appended to the frame before it, the error goes to ret.
ComputeStateCall ==
    /\ pc = "compute_state"
    /\ LET cs == ComputeState(Top.state, input[pos + 1], Top.acc)
       IN  /\ frames' = Append(frames,
                               [Top EXCEPT !.state = IF cs.ok THEN cs.state ELSE @,
                                           !.acc = cs.acc])
           /\ ret' = IF cs.ok THEN Ok(0) ELSE Err(cs.err)
           /\ firstErr' = IF cs.ok THEN firstErr ELSE Raise(cs.err)
    /\ pos' = AfterNext(pos)
    /\ pc' = "computed"
    /\ UNCHANGED <<input, topResult, outcome, lastApply, applyFailed, prev, callPos>>

SpecTable == TableInit /\ [][ComputeStateCall]_vars

Done == pc = "done"
Balanced == Count(input, OPCODE_OPEN) = Count(input, OPCODE_CLOSE)

(***************************************************************************)
(* Helpers of the properties.                                              *)
(***************************************************************************)
GroupFree(s) == \A i \in 1..Len(s) : s[i] \notin {OPCODE_OPEN, OPCODE_CLOSE}
HasGroup(s) == ~GroupFree(s)

\* No operand is written with a leading zero.
NoLeadingZero(s) ==
    \A i \in 1..Len(s) :
        (s[i] = "0" /\ (i = 1 \/ ~IsDigit(s[i - 1]))) => (i = Len(s) \/ ~IsDigit(s[i + 1]))

\* Some prefix holds more group-close than group-open symbols.
CloseBeforeOpen(s) ==
    \E n \in 1..Len(s) :
        Count(SubSeq(s, 1, n), OPCODE_CLOSE) > Count(SubSeq(s, 1, n), OPCODE_OPEN)

\* Truncating division, and the four operations over the integers.
MathResult(kind, a, b) ==
    CASE kind = "Add" -> a + b
      [] kind = "Sub" -> a - b
      [] kind = "Mul" -> a * b
      [] kind = "Div" -> IF b = 0 THEN -1 ELSE a \div b

(***************************************************************************)
(* The properties.                                                         *)
(***************************************************************************)

\* C1: a group-free expression d0 op1 d1 ... opk dk whose operands and
\* intermediate values are all representable parses to Ok of its strict
\* left-to-right fold (truncating division, no precedence).
C1_LeftFold ==
    (Done /\ GroupFree(input) /\ RefEval(input).wf /\ RefEval(input).rep)
        => outcome = Ok(RefEval(input).val)

\* C2: a well-formed expression with groups, all of whose values are
\* representable, parses to the value obtained by evaluating every group
\* to one value first and folding each level left to right.  Stated for
\* expressions with a group and with no operand written with a leading
\* zero.
C2_GroupsFirst ==
    (Done /\ HasGroup(input) /\ NoLeadingZero(input)
          /\ RefEval(input).wf /\ RefEval(input).rep)
        => outcome = Ok(RefEval(input).val)

\* C3: wrapping an operand of a well-formed expression that parsed to v in
\* one more group-open / group-close pair yields an expression that also
\* parses to v.
C3_RedundantGroupTransparent ==
    (Done /\ prev.ok /\ WellFormed(input)) => outcome = prev

\* C4: when the numbers of group-open and group-close symbols differ,
\* Parser::parse returns UnbalancedParenthesis naming the symbol in excess,
\* and no step of the state machine runs: no symbol is consumed, no frame
\* is entered, no other error is created.
C4_PreScanBalance ==
    ~Balanced =>
        /\ pc \in {"parse", "done"}
        /\ pos = 0
        /\ frames = <<>>
        /\ lastApply = NoApply
        /\ Done =>
             /\ outcome = Err(UnbalancedParenthesis(
                    IF Count(input, OPCODE_OPEN) > Count(input, OPCODE_CLOSE)
                    THEN OPCODE_OPEN ELSE OPCODE_CLOSE))
             /\ firstErr = outcome.err

C4_Witness ==
    /\ Done
    /\ Count(input, OPCODE_CLOSE) > Count(input, OPCODE_OPEN)
    /\ \E i \in 1..Len(input) : input[i] = OtherChar
    /\ outcome = Err(UnbalancedParenthesis(OPCODE_CLOSE))

\* C5: on a paren-balanced input, when the first failure is a symbol that
\* compute_state rejects as illegal for the parser state, Parser::parse
\* returns MalformedExpression carrying exactly that symbol.
C5_MalformedAtSymbol ==
    (Done /\ Balanced /\ firstErr.kind = "MalformedExpression")
        => outcome = Err(firstErr)

\* C6: when some step fails, Parser::parse returns exactly the first error
\* value that was created; it is never dropped or replaced by another.
C6_FirstErrorReturned ==
    (Done /\ firstErr # NoError) => outcome = Err(firstErr)

\* C7: on a paren-balanced input whose first failure is an operand digit
\* run (first or second operand) that does not fit usize, Parser::parse
\* returns ParseDigitError carrying the shortest overflowing prefix of
\* the run, never an InvalidOperation.
C7_LexicalOverflow ==
    (Done /\ Balanced /\ firstErr.msg = PosOverflow)
        => outcome = Err(ParseDigitError(firstErr.text, PosOverflow))

\* Every call of Operation::apply_result made so far returned Ok of the
\* exact value when it lies in [0, usize::MAX], OverflowError otherwise.
ApplyResultExact ==
    lastApply.called =>
        LET v == MathResult(lastApply.op.kind, lastApply.op.first, lastApply.second)
        IN  lastApply.res = IF v >= 0 /\ v <= UsizeMax
                            THEN OpOk(v) ELSE OpErr(OverflowError)

\* A failed call of Operation::apply_result makes Parser::parse return
\* InvalidOperation(OverflowError).
ApplyFailureSurfaced ==
    (Done /\ applyFailed) => outcome = Err(InvalidOperation(OverflowError))

\* C8: every call of Operation::apply_result returns Ok of the exact sum,
\* difference, product or truncated quotient when that value lies in
\* [0, usize::MAX] (and the divisor is not zero), OverflowError otherwise,
\* never a wrapped value; and the parser surfaces a failed call as
\* InvalidOperation(OverflowError).
C8_CheckedArithmetic == ApplyResultExact /\ ApplyFailureSurfaced

\* C9: Parser::parse returns EmptyExpression exactly when the input has no
\* symbols.
C9_EmptyIffNoSymbols ==
    Done => ((outcome = Err(EmptyExpression)) <=> (input = <<>>))

C9_Witness ==
    /\ Done
    /\ input = <<>>
    /\ outcome = Err(EmptyExpression)

\* C10: a paren-balanced input in which a group-close comes before its
\* group-open never parses to Ok.
C10_CloseBeforeOpenNeverOk ==
    (Done /\ Balanced /\ CloseBeforeOpen(input)) => ~outcome.ok

\* A group-open at the start, after an operator code or after another
\* group-open, immediately followed by its group-close.
EmptyGroup(s) ==
    \E i \in 1..(Len(s) - 1) :
        /\ s[i] = OPCODE_OPEN
        /\ s[i + 1] = OPCODE_CLOSE
        /\ (i = 1 \/ s[i - 1] \in OpCodes \cup {OPCODE_OPEN})

\* C11: a paren-balanced input holding a group whose group-close arrives
\* before any operand has been read inside it (at the start, after an
\* operator, nested) never parses to a value.
C11_EmptyGroupNeverOk ==
    (Done /\ Balanced /\ EmptyGroup(input)) => ~outcome.ok

\* C12: Parser::parse returns IllegalState for no input.
C12_NoIllegalState ==
    Done => (outcome.ok \/ outcome.err.kind # "IllegalState")

\* A group-close immediately followed by a digit or a group-open.
OperandAfterClose(s) ==
    \E i \in 1..(Len(s) - 1) :
        /\ s[i] = OPCODE_CLOSE
        /\ (IsDigit(s[i + 1]) \/ s[i + 1] = OPCODE_OPEN)

\* C14: a paren-balanced input, every group-close of which comes after its
\* group-open, and in which a group-close is immediately followed by a
\* digit or a group-open, never parses to Ok.
C14_OperandAfterCloseNeverOk ==
    (Done /\ Balanced /\ ~CloseBeforeOpen(input) /\ OperandAfterClose(input))
        => ~outcome.ok

\* The class of a symbol in the state-transition table.
SymbolClass(ch) ==
    CASE IsDigit(ch) -> "digit"
      [] ch \in OpCodes -> "operator"
      [] ch = OPCODE_OPEN -> "open"
      [] ch = OPCODE_CLOSE -> "close"
      [] OTHER -> "other"

\* The state-transition table: the next state, "" where no entry is listed.
TableNext(state, class, acc) ==
    CASE state = FirstOperand /\ class = "digit" -> FirstOperand
      [] state = FirstOperand /\ class = "operator" -> Operation
      [] state = FirstOperand /\ class = "open" -> FirstOperand
      [] state = FirstOperand /\ class = "close" -> CloseParenthesis
      [] state = Operation /\ class = "digit" -> SecondOperand
      [] state = Operation /\ class = "operator" /\ acc # <<>> -> Operation
      [] state = Operation /\ class = "open" -> Operation
      [] state = SecondOperand /\ class = "digit" -> SecondOperand
      [] state = SecondOperand /\ class = "operator" -> Operation
      [] state = SecondOperand /\ class = "open" -> SecondOperand
      [] state = SecondOperand /\ class = "close" -> CloseParenthesis
      [] state = CloseParenthesis /\ class = "operator" -> Operation
      [] state = CloseParenthesis /\ class = "close" -> CloseParenthesis
      [] OTHER -> ""

Remaining == Len(input) - pos
Rank ==
    CASE pc = "done" -> 0
      [] pc = "loop" -> 2
      [] pc = "parse" -> 3
      [] pc = "return" -> 3 + Len(frames)
      [] pc = "scan" -> IF Remaining > 0 THEN 1 ELSE 3 + Len(frames)
Measure == (Len(input) + 5) * Remaining + Rank

\* C15: Parser::parse terminates: the cursor never moves back, an iteration
\* of the loop of parse_internal consumes exactly one symbol, the peek after
\* a group consumes none, a parse_internal called by the top-level loop has
\* consumed at least one symbol when it returns, and every step lowers a
\* variant that is never negative.
C15_Terminates ==
    [][ pc' # "parse" =>
          /\ pos' >= pos
          /\ pos' <= Len(input)
          /\ (pc = "scan" /\ pos < Len(input)) => pos' = pos + 1
          /\ (pc = "return") => pos' = pos
          /\ (pc = "return" /\ frames = <<>>) => pos > callPos
          /\ Measure' < Measure
          /\ Measure' >= 0 ]_vars

C15_Witness ==
    /\ Done
    /\ outcome.ok
    /\ HasGroup(input)
    /\ callPos > 0
    /\ PreScanResult(input).ok

\* The innermost frame is about to read the symbol ch, which compute_state
\* lets pass into the state `state`.
Dispatching(ch, state) ==
    /\ pc = "scan"
    /\ pos < Len(input)
    /\ input[pos + 1] = ch
    /\ ComputeState(Top.state, ch, Top.acc).ok
    /\ ComputeState(Top.state, ch, Top.acc).state = state

NoOperationInSecondOperand ==
    IllegalState("No operation when evaluating SecondOperand")

\* C16: a frame in state SecondOperand, or about to dispatch a digit in
\* SecondOperand, has a pending Operation, and
\* IllegalState("No operation when evaluating SecondOperand") is never
\* created or returned.
C16_SecondOperandHasOperation ==
    /\ \A i \in 1..Len(frames) :
         frames[i].state = SecondOperand => frames[i].operation.some
    /\ \A d \in AsciiDigits :
         Dispatching(d, SecondOperand) => Top.operation.some
    /\ firstErr # NoOperationInSecondOperand
    /\ ret # Err(NoOperationInSecondOperand)
    /\ outcome # Err(NoOperationInSecondOperand)

C16_Witness ==
    /\ \E d \in AsciiDigits : Dispatching(d, SecondOperand)
    /\ Top.state = SecondOperand
    /\ Top.operation.some
    /\ Top.result.some

\* C17: UnexpectedSymbol is unreachable: a symbol that passes compute_state
\* matches one of the first five arms of the match of parse_internal, and
\* no UnexpectedSymbol is created, returned by a frame or returned by
\* Parser::parse.
C17_NoUnexpectedSymbol ==
    /\ (pc = "scan" /\ pos < Len(input)) =>
         LET step == Iteration(Top, input[pos + 1])
         IN  step.tag = "return" => step.res.err.kind # "UnexpectedSymbol"
    /\ firstErr.kind # "UnexpectedSymbol"
    /\ ret.err.kind # "UnexpectedSymbol"
    /\ outcome.err.kind # "UnexpectedSymbol"

C17_Witness ==
    /\ Dispatching(OPCODE_CLOSE, CloseParenthesis)
    /\ Len(frames) = 2
    /\ Top.state = SecondOperand
    /\ Iteration(Top, OPCODE_CLOSE).res.ok

\* C18: when an operator code is dispatched in state Operation the
\* accumulator of the frame is empty, as it is in every frame in state
\* Operation, so the Operation is built by Operation::from_result and never
\* by Operation::from; InvalidFirstOperand appears in no result; and an
\* operator code read by a frame in state Operation is rejected by
\* compute_state.
C18_OperatorOnEmptyAccumulator ==
    /\ \A code \in OpCodes :
         Dispatching(code, Operation) =>
             ComputeState(Top.state, code, Top.acc).acc = <<>>
    /\ \A i \in 1..Len(frames) :
         frames[i].state = Operation => frames[i].acc = <<>>
    /\ (pc = "scan" /\ pos < Len(input) /\ input[pos + 1] \in OpCodes
          /\ Top.state = Operation)
         => Iteration(Top, input[pos + 1]).res
              = Err(MalformedExpression(input[pos + 1]))
    /\ firstErr.inner # "InvalidFirstOperand"
    /\ ret.err.inner # "InvalidFirstOperand"
    /\ outcome.err.inner # "InvalidFirstOperand"

C18_Witness ==
    /\ \E code \in OpCodes : Dispatching(code, Operation)
    /\ Top.state = SecondOperand
    /\ Top.acc # <<>>
    /\ Top.result.some

\* An operator code right after an operator code in one frame.
C18_WitnessChained ==
    /\ pc = "return"
    /\ pos >= 2
    /\ input[pos] \in OpCodes
    /\ input[pos - 1] \in OpCodes
    /\ ret = Err(MalformedExpression(input[pos]))

\* C19: between the iterations of the loop of parse_internal no frame is in
\* state CloseParenthesis, so compute_state is never called in that state;
\* no frame returns UnbalancedParenthesis, and an UnbalancedParenthesis
\* that is created or returned by Parser::parse is the one of the pre-scan.
C19_NeverInCloseParenthesis ==
    /\ \A i \in 1..Len(frames) : frames[i].state # CloseParenthesis
    /\ ret.err.kind # "UnbalancedParenthesis"
    /\ firstErr.kind = "UnbalancedParenthesis"
         => (pos = 0 /\ firstErr = PreScanResult(input).err)
    /\ outcome.err.kind = "UnbalancedParenthesis"
         => (pos = 0 /\ outcome = PreScanResult(input))

C19_Witness ==
    /\ pc = "return"
    /\ pos >= 1
    /\ input[pos] = OPCODE_CLOSE
    /\ ret.ok
    /\ frames # <<>>
    /\ Top.state # CloseParenthesis

\* C20 as stated: when an input without groups has parsed to Ok(v), that
\* input followed by one operator code parses to Ok(v) too.
C20_TrailingOperator ==
    (Done /\ prev.ok /\ GroupFree(input)) => outcome = prev

\* C20, amended: when an input without groups that ends with a digit has
\* parsed to Ok(v), that input followed by one operator code parses to
\* Ok(v) too.
C20_TrailingOperatorAfterDigit ==
    (Done /\ prev.ok /\ GroupFree(input) /\ IsDigit(input[Len(input) - 1]))
        => outcome = prev

C20_Witness ==
    /\ Done
    /\ prev.ok
    /\ GroupFree(input)
    /\ Len(input) = 4
    /\ input[2] \in OpCodes
    /\ IsDigit(input[3])
    /\ input[4] \in OpCodes
    /\ prev.val > 0
    /\ outcome = prev

\* A digit immediately followed by a group-open, and the place of the first.
Juxtaposed(s) ==
    \E i \in 1..(Len(s) - 1) : IsDigit(s[i]) /\ s[i + 1] = OPCODE_OPEN
JuxtaposedAt(s) ==
    CHOOSE i \in 1..(Len(s) - 1) : IsDigit(s[i]) /\ s[i + 1] = OPCODE_OPEN

\* C21: a digit run immediately followed by a group is discarded: once the
\* group-open after the digit has been consumed, the expression parses to
\* the value it has without the digit (op(a, g) for a second operand with
\* pending Operation op and first operand a, g alone for a first operand),
\* and no error is reported.
C21_DigitsBeforeGroupDiscarded ==
    (Done /\ prev.ok /\ Juxtaposed(input) /\ pos > JuxtaposedAt(input))
        => outcome = prev

\* The digit stands for a second operand, after an operator code.
C21_Witness ==
    /\ Done
    /\ prev.ok
    /\ Juxtaposed(input)
    /\ JuxtaposedAt(input) = 3
    /\ input[2] \in OpCodes
    /\ input[3] = "7"
    /\ pos = Len(input)
    /\ prev.val > 0
    /\ outcome = prev

\* The digit stands for a first operand, with no pending Operation.
C21_WitnessFirstOperand ==
    /\ Done
    /\ prev.ok
    /\ Juxtaposed(input)
    /\ JuxtaposedAt(input) = 1
    /\ input[1] = "7"
    /\ pos = Len(input)
    /\ outcome = prev

====
